---- MODULE Spec2Model ----
(***************************************************************************)
(* Model of the two stock scanners of the repository:                      *)
(*   scanner/momentum_print_scan.py   (the watchlist scanner)              *)
(*   scanner/realtime_gainer_scan.py  (the gainer scanner)                 *)
(*                                                                         *)
(* Units.  Python floats are modelled in fixed point:                      *)
(*   prices            cents                                               *)
(*   sub-scores        thousandths (1.0 = 1000)                            *)
(*   score_10 cells    tenths      (7.5 = 75)                              *)
(*   confidence        thousandths of a point (75.0 = 75000)               *)
(*   spread_pct        hundredths of a percent (1.00 % = 100)              *)
(* The input sets are chosen so that every division of the code is exact   *)
(* in these units and no rounding falls on an exact tie.                   *)
(*                                                                         *)
(* A Python scalar is a tagged record: None, NaN (what pandas yields for   *)
(* an empty CSV cell) or Num(x).  A JSON mapping is a function with a set  *)
(* of string keys; the empty mapping {} is the empty function.             *)
(***************************************************************************)
EXTENDS Integers, Sequences, FiniteSets, TLC

VARIABLES
    prog,       \* which script runs: "watchlist" or "gainer"
    API_KEY,    \* os.getenv("POLYGON_API_KEY") is set
    args,       \* argparse namespace of the watchlist scanner: loop, interval
    pc,         \* position of the running script
    passes,     \* scan passes started so far (saturates at MaxPasses)
    watch,      \* the loaded watchlist: its columns, the rows left to process
    mkt_score,  \* run_scan's mkt_score
    row,        \* the watchlist row handed to process_row last
    sub,        \* the five sub-scores process_row handed to compute_confidence
    data,       \* what process_row returned last
    rows,       \* run_scan's rows list
    printed,    \* what this pass printed
    slept,      \* the argument of main's last time.sleep
    calls       \* the HTTP wrapper calls of the last step, one record each

vars == <<prog, API_KEY, args, pc, passes, watch, mkt_score, row, sub, data,
          rows, printed, slept, calls>>

----------------------------------------------------------------------------
(* Python values *)

None == [k |-> "none", v |-> 0]
NaN == [k |-> "nan", v |-> 0]
Num(x) == [k |-> "num", v |-> x]

IsNone(x) == x.k = "none"
IsNaN(x) == x.k = "nan"
IsNum(x) == x.k = "num"

\* bool(x) of a float or None: NaN is truthy, 0.0 and None are not.
Truthy(x) == IsNaN(x) \/ (IsNum(x) /\ x.v /= 0)

\* a or b
Or(a, b) == IF Truthy(a) THEN a ELSE b

\* dict.get(key, default)
Get(m, key, default) == IF key \in DOMAIN m THEN m[key] ELSE default

EmptyMap == <<>>

Min(a, b) == IF b < a THEN b ELSE a
Max(a, b) == IF b > a THEN b ELSE a

\* n / d rounded to the nearest integer, ties to even (d > 0): Python's round.
RoundDiv(n, d) ==
    LET q == n \div d
        r == n % d
    IN  IF 2 * r < d THEN q
        ELSE IF 2 * r > d THEN q + 1
        ELSE IF q % 2 = 0 THEN q ELSE q + 1

RECURSIVE SumOver(_, _)
\* sum(f(x) for x in s), f given as a sequence of the terms
SumOver(s, i) == IF i > Len(s) THEN 0 ELSE s[i] + SumOver(s, i + 1)

RECURSIVE MaxOver(_, _)
MaxOver(s, i) == IF i = Len(s) THEN s[i] ELSE Max(s[i], MaxOver(s, i + 1))

----------------------------------------------------------------------------
(* The HTTP wrappers.  A reply is what the server answers to the request:  *)
(* a status and, for status 200, the JSON body.                            *)

Reply(status, body) == [status |-> status, body |-> body]
Ok(body) == Reply(200, body)
Fail(status) == Reply(status, EmptyMap)

\* What one wrapper call did: the status it met, the requests it issued,
\* the backoff sleeps it took, whether it raised, and the JSON it returned.
Call(status, requests, sleeps, raised, json) ==
    [status |-> status, requests |-> requests, sleeps |-> sleeps,
     raised |-> raised, json |-> json]

\* A wrapper that honours HTTP 429 with exponential backoff (1, 2, 4, ...)
\* up to three retries, and gives up after them.
polygon_get_backoff(key, reply) ==
    IF ~key THEN Call(0, 0, <<>>, FALSE, EmptyMap)
    ELSE IF reply.status = 429
         THEN Call(429, 4, <<1, 2, 4>>, FALSE, EmptyMap)
         ELSE Call(reply.status, 1, <<>>, FALSE,
                   IF reply.status = 200 THEN reply.body ELSE EmptyMap)

\* A wrapper that sends the request whether or not the key is set.
polygon_get_keyless(key, reply) ==
    IF reply.status = 200
    THEN Call(200, 1, <<>>, FALSE, reply.body)
    ELSE Call(reply.status, 1, <<>>, FALSE, EmptyMap)

\* momentum_print_scan.polygon_get: no key, no request; any failure of the
\* single request (raise_for_status on a non-2xx status) is swallowed into {}.
polygon_get(key, reply) ==
    IF ~key THEN Call(0, 0, <<>>, FALSE, EmptyMap)
    ELSE IF reply.status = 200
         THEN Call(200, 1, <<>>, FALSE, reply.body)
         ELSE Call(reply.status, 1, <<>>, FALSE, EmptyMap)

\* realtime_gainer_scan._get: one request; raise_for_status propagates.
gainer_get(reply) ==
    IF reply.status = 200
    THEN Call(200, 1, <<>>, FALSE, reply.body)
    ELSE Call(reply.status, 1, <<>>, TRUE, EmptyMap)

----------------------------------------------------------------------------
(* Polygon data fetchers.  Each takes the reply (or replies) the server    *)
(* gives to its request(s).                                                *)

\* fetch_premarket: stats over the 1-minute bars, price from the last trade.
fetch_premarket(key, aggs, last_trade) ==
    LET results == Get(polygon_get(key, aggs).json, "results", <<>>)
        total_vol == SumOver([i \in 1..Len(results) |->
                                 Get(results[i], "v", Num(0)).v], 1)
        vwap == IF total_vol > 0
                THEN Num(SumOver([i \in 1..Len(results) |->
                                     Get(results[i], "c", Num(0)).v
                                     * Get(results[i], "v", Num(0)).v], 1)
                         \div total_vol)
                ELSE None
        bar_px == IF Len(results) > 0 THEN results[Len(results)]["c"] ELSE None
        trade == Get(polygon_get(key, last_trade).json, "results", EmptyMap)
        price == IF DOMAIN trade /= {} THEN Get(trade, "p", bar_px) ELSE bar_px
    IN  [price |-> price, vwap |-> vwap, volume |-> total_vol,
         alive |-> total_vol > 10000]

\* The part of fetch_quote that scores the sizes, averaging them and
\* capping the average at 2000.
size_score_avg(bid_size, ask_size) ==
    IF Truthy(bid_size) \/ Truthy(ask_size)
    THEN (Min((Or(bid_size, Num(0)).v + Or(ask_size, Num(0)).v) \div 2, 2000)
          * 1000) \div 2000
    ELSE 0

\* fetch_quote, lines 152-153: min((bid_size + ask_size) / 2000, 1.0).
size_score_of(bid_size, ask_size) ==
    IF Truthy(bid_size) \/ Truthy(ask_size)
    THEN Min(((Or(bid_size, Num(0)).v + Or(ask_size, Num(0)).v) * 1000)
             \div 2000, 1000)
    ELSE 0

\* fetch_quote, lines 150-151: max(0.0, 1 - spread_pct / 5).
spread_score_of(spread_pct) ==
    IF IsNone(spread_pct) THEN 0
    ELSE Max(0, 1000 - 2 * spread_pct.v)

\* fetch_quote: last quote, spread in percent, liquidity score.
fetch_quote(key, reply) ==
    LET res == Get(polygon_get(key, reply).json, "results", EmptyMap)
        bid == Get(res, "bp", None)
        ask == Get(res, "ap", None)
        bid_size == Get(res, "bs", None)
        ask_size == Get(res, "as", None)
        spread_pct == IF Truthy(bid) /\ Truthy(ask) /\ bid.v > 0
                      THEN Num(((ask.v - bid.v) * 10000) \div bid.v)
                      ELSE None
        spread_score == spread_score_of(spread_pct)
        size_score == size_score_of(bid_size, ask_size)
    IN  [bid |-> bid, ask |-> ask, bid_size |-> bid_size,
         ask_size |-> ask_size, spread_pct |-> spread_pct,
         liq_score |-> (spread_score + size_score) \div 2]

\* KEYWORD_WEIGHTS, in the dictionary's order.
KEYWORD_WEIGHTS ==
    << [weight |-> 1000,
        words |-> {"fda", "approval", "phase 3", "merger", "acquisition",
                   "buyout"}],
       [weight |-> 600,
        words |-> {"earnings", "guidance", "contract", "partnership"}],
       [weight |-> 500, words |-> {"upgrade", "initiation"}] >>

\* str.lower() on the words a headline is made of.
Lower(w) ==
    CASE w = "FDA" -> "fda"
      [] w = "Earnings" -> "earnings"
      [] w = "Upgrade" -> "upgrade"
      [] OTHER -> w

\* The weight one article adds: every tier a word of its title falls in.
article_weight(art) ==
    LET title == {Lower(w) : w \in Get(art, "title", {})}
    IN  SumOver([t \in 1..Len(KEYWORD_WEIGHTS) |->
                    IF title \cap KEYWORD_WEIGHTS[t].words /= {}
                    THEN KEYWORD_WEIGHTS[t].weight ELSE 0], 1)

\* fetch_news_score: (score, has_news)
fetch_news_score(key, reply) ==
    LET articles == Get(polygon_get(key, reply).json, "results", <<>>)
        score == SumOver([i \in 1..Len(articles) |->
                             article_weight(articles[i])], 1)
    IN  [score |-> Min(score, 1000), has_news |-> Len(articles) > 0]

\* fetch_daily_high: the highest daily high, None without bars.
fetch_daily_high(key, reply) ==
    LET results == Get(polygon_get(key, reply).json, "results", <<>>)
    IN  IF Len(results) = 0 THEN None
        ELSE Num(MaxOver([i \in 1..Len(results) |->
                             Get(results[i], "h", Num(0)).v], 1))

\* fetch_market_score: SPY's change since start, mapped from -0.5%..+0.5%.
fetch_market_score(key, reply) ==
    LET results == Get(polygon_get(key, reply).json, "results", <<>>)
        first == Or(Get(results[1], "o", None), Get(results[1], "c", None))
        last == Get(results[Len(results)], "c", None)
    IN  IF Len(results) = 0 THEN 500
        ELSE IF ~Truthy(first) \/ ~Truthy(last) THEN 500
        ELSE Max(0, Min(1000,
                 ((last.v - first.v) * 100000) \div first.v + 500))

\* compute_flow_score
compute_flow_score(premkt) ==
    LET score == IF premkt.volume /= 0
                 THEN Min(premkt.volume \div 5000, 1000) ELSE 0
    IN  IF Truthy(premkt.price) /\ Truthy(premkt.vwap)
           /\ premkt.price.v >= premkt.vwap.v
        THEN Min(score + 100, 1000)
        ELSE score

----------------------------------------------------------------------------
(* Watchlist rows and score computation *)

Str(s) == [k |-> "str", v |-> s]

\* str.upper() on the symbols of the model
Upper(s) ==
    CASE s = "aaa" -> "AAA"
      [] s = "bbb" -> "BBB"
      [] s = "ccc" -> "CCC"
      [] OTHER -> s

\* process_row, line 289: str(row.get("symbol", "")).upper(); str(nan) is "nan"
ticker_of(r) ==
    LET s == Get(r, "symbol", Str(""))
    IN  IF IsNaN(s) THEN "NAN" ELSE Upper(s.v)

\* process_row, line 293: (float(row.get("score_10", 0)) or 0) / 10
base_score_of(r) ==
    LET cell == Or(Get(r, "score_10", Num(0)), Num(0))
    IN  IF IsNaN(cell) THEN NaN ELSE Num(cell.v * 10)

\* process_row, lines 294-301: the four overrides parsed from the row
entry_of(r) == Or(Or(Get(r, "entry", None), Get(r, "px", None)), None)
stop_of(r) == Get(r, "stop", None)
t1_of(r) == Get(r, "t1", None)
t2_of(r) == Get(r, "t2", None)

\* compute_targets: explicit targets, else the 30-day high and high * 1.05
compute_targets(key, daily, entry, t1, t2) ==
    LET high == fetch_daily_high(key, daily)
    IN  IF Truthy(t1) /\ Truthy(t2) THEN <<t1, t2>>
        ELSE IF IsNone(high) THEN <<t1, t2>>
        ELSE << IF ~Truthy(t1) THEN high ELSE t1,
                IF ~Truthy(t2) THEN Num(RoundDiv(high.v * 105, 100)) ELSE t2 >>

\* compute_confidence; base is the only input a NaN can reach
compute_confidence(base, news, flow, liq, market) ==
    IF IsNaN(base) THEN NaN
    ELSE Num(35 * base.v + 25 * news + 20 * flow + 10 * liq + 10 * market)

\* conviction_from_confidence with the bands one step off.
conviction_strict(conf) ==
    IF IsNum(conf) /\ conf.v > 75000 THEN "High"
    ELSE IF IsNum(conf) /\ conf.v > 55000 THEN "Medium"
    ELSE "Low"

\* conviction_from_confidence; every comparison with NaN is false
conviction_from_confidence(conf) ==
    IF IsNum(conf) /\ conf.v >= 75000 THEN "High"
    ELSE IF IsNum(conf) /\ conf.v >= 55000 THEN "Medium"
    ELSE "Low"

conv_num_of(cv) ==
    CASE cv = "High" -> 2 [] cv = "Medium" -> 1 [] cv = "Low" -> 0

\* The replies the server gives to the requests of one process_row call.
Env(aggs, last_trade, quote, news, daily) ==
    [aggs |-> aggs, last_trade |-> last_trade, quote |-> quote,
     news |-> news, daily |-> daily]

\* process_row, lines 293 and 303-309: the five sub-scores and the confidence
row_scores(key, r, env, mkt) ==
    LET premkt == fetch_premarket(key, env.aggs, env.last_trade)
        quote == fetch_quote(key, env.quote)
        news == fetch_news_score(key, env.news)
        base == base_score_of(r)
        flow == compute_flow_score(premkt)
    IN  [base |-> base, news |-> news.score, flow |-> flow,
         liq |-> quote.liq_score, market |-> mkt,
         conf |-> compute_confidence(base, news.score, flow,
                                     quote.liq_score, mkt)]

NoScores ==
    [base |-> None, news |-> 0, flow |-> 0, liq |-> 0, market |-> 0,
     conf |-> None]

\* process_row, lines 303-335: the output row of a ticker
output_row(key, r, env, mkt) ==
    LET premkt == fetch_premarket(key, env.aggs, env.last_trade)
        quote == fetch_quote(key, env.quote)
        news == fetch_news_score(key, env.news)
        conf == row_scores(key, r, env, mkt).conf
        conviction == conviction_from_confidence(conf)
        entry == IF IsNone(entry_of(r)) THEN premkt.price ELSE entry_of(r)
        stop == IF IsNone(stop_of(r)) /\ Truthy(entry)
                THEN (IF IsNaN(entry) THEN NaN
                      ELSE Num(RoundDiv(entry.v * 97, 100)))
                ELSE stop_of(r)
        targets == compute_targets(key, env.daily, entry, t1_of(r), t2_of(r))
    IN  [cv |-> conviction,
         conv_num |-> conv_num_of(conviction),
         conf |-> IF IsNaN(conf) THEN NaN ELSE Num(RoundDiv(conf.v, 1000)),
         sym |-> ticker_of(r),
         px |-> IF Truthy(Get(r, "px", None)) THEN r["px"]
                ELSE Or(premkt.price, Num(0)),
         entry |-> IF Truthy(entry) THEN entry ELSE None,
         stop |-> IF Truthy(stop) THEN stop ELSE None,
         T1 |-> targets[1],
         T2 |-> targets[2],
         pm_px |-> IF Truthy(premkt.price) THEN premkt.price ELSE None,
         pm_vwap |-> IF Truthy(premkt.vwap) THEN premkt.vwap ELSE None,
         pm_vol |-> premkt.volume,
         spread |-> IF Truthy(quote.spread_pct) THEN quote.spread_pct
                    ELSE None,
         score |-> Get(r, "score_10", None),
         news |-> news.has_news]

\* process_row: {} for an empty ticker (lines 289-291), else the output row
process_row(key, r, env, mkt) ==
    IF ticker_of(r) = "" THEN EmptyMap ELSE output_row(key, r, env, mkt)

\* The wrapper calls process_row issues, in order; the daily bars are only
\* fetched when compute_targets lacks a target.
row_calls(key, r, env) ==
    IF ticker_of(r) = "" THEN <<>>
    ELSE << polygon_get(key, env.aggs), polygon_get(key, env.last_trade),
            polygon_get(key, env.quote), polygon_get(key, env.news) >>
         \o (IF Truthy(t1_of(r)) /\ Truthy(t2_of(r)) THEN <<>>
             ELSE << polygon_get(key, env.daily) >>)

----------------------------------------------------------------------------
(* Table printing *)

\* format_volume: K/M/B suffix with one decimal, a plain integer below 1000
format_volume(vol) ==
    IF vol >= 1000000000
    THEN [tenths |-> RoundDiv(vol * 10, 1000000000), unit |-> "B"]
    ELSE IF vol >= 1000000
    THEN [tenths |-> RoundDiv(vol * 10, 1000000), unit |-> "M"]
    ELSE IF vol >= 1000
    THEN [tenths |-> RoundDiv(vol * 10, 1000), unit |-> "K"]
    ELSE [tenths |-> vol * 10, unit |-> ""]

\* DataFrame.sort_values on one float column, descending: NaN goes last.
ConfBefore(x, y) == IsNum(x) /\ (IsNaN(y) \/ (IsNum(y) /\ x.v > y.v))

\* The sort with the default ascending order.
KeyBeforeAscending(a, b) ==
    \/ a.conv_num < b.conv_num
    \/ a.conv_num = b.conv_num /\ ConfBefore(b.conf, a.conf)
    \/ a.conv_num = b.conv_num /\ a.conf = b.conf /\ a.pm_vol < b.pm_vol

\* build_table, line 348: a sorts strictly before b under
\* ["conv_num", "conf", "pm_vol"], all descending
KeyBefore(a, b) ==
    \/ a.conv_num > b.conv_num
    \/ a.conv_num = b.conv_num /\ ConfBefore(a.conf, b.conf)
    \/ a.conv_num = b.conv_num /\ a.conf = b.conf /\ a.pm_vol > b.pm_vol

RECURSIVE InsertAt(_, _, _)
\* x put before the first row of the sorted s that x sorts strictly before
InsertAt(s, x, i) ==
    IF i > Len(s) THEN Append(s, x)
    ELSE IF KeyBefore(x, s[i])
         THEN SubSeq(s, 1, i - 1) \o <<x>> \o SubSeq(s, i, Len(s))
         ELSE InsertAt(s, x, i + 1)

RECURSIVE SortRows(_, _)
\* sort_values (a stable lexsort) of the first n rows
SortRows(s, n) ==
    IF n = 0 THEN <<>> ELSE InsertAt(SortRows(s, n - 1), s[n], 1)

\* build_table, lines 349-351: conv_num dropped, pm_vol formatted
render_row(d) ==
    [cv |-> d.cv, conf |-> d.conf, sym |-> d.sym, px |-> d.px,
     entry |-> d.entry, stop |-> d.stop, T1 |-> d.T1, T2 |-> d.T2,
     pm_px |-> d.pm_px, pm_vwap |-> d.pm_vwap,
     pm_vol |-> format_volume(d.pm_vol), spread |-> d.spread,
     score |-> d.score, news |-> d.news]

NothingPrinted == [text |-> "", table |-> <<>>]

\* build_table: the message for an empty frame, else the sorted table
\* (to_markdown and to_string differ in the rendering only)
build_table(rs) ==
    IF Len(rs) = 0 THEN [text |-> "No data returned.", table |-> <<>>]
    ELSE [text |-> "table",
          table |-> [i \in 1..Len(rs) |->
                        render_row(SortRows(rs, Len(rs))[i])]]

\* load_watchlist: the columns lower-cased; without a "symbol" column the
\* aliases are renamed to it
LowerCol(c) ==
    CASE c = "Symbol" -> "symbol"
      [] c = "SYM" -> "sym"
      [] c = "Ticker" -> "ticker"
      [] c = "Name" -> "name"
      [] c = "Score_10" -> "score_10"
      [] c = "T1" -> "t1"
      [] c = "T2" -> "t2"
      [] OTHER -> c

load_watchlist(header) ==
    LET cols == {LowerCol(c) : c \in header}
    IN  IF "symbol" \in cols THEN cols
        ELSE {IF c \in {"sym", "ticker"} THEN "symbol" ELSE c : c \in cols}

\* realtime_gainer_scan.display: one line for each of the first ten gainers
\* that has a price
RECURSIVE display(_, _)
display(gainers, i) ==
    IF i > Len(gainers) \/ i > 10 THEN <<>>
    ELSE LET g == gainers[i]
             price == Or(Get(Get(g, "lastTrade", EmptyMap), "p", None),
                         Get(Get(g, "day", EmptyMap), "c", None))
         IN  (IF IsNone(price) THEN <<>>
              ELSE << [ticker |-> Get(g, "ticker", ""), price |-> price,
                       pct |-> Get(g, "todaysChangePerc", Num(0))] >>)
             \o display(gainers, i + 1)

----------------------------------------------------------------------------
(* Bounds and inputs of the scanners *)

MaxRows == 3
MaxPasses == 2

Bar(c, v) == [c |-> Num(c), v |-> Num(v)]

\* --interval values, the default 45 among them
Intervals == {0 - 3, 0, 45}

Args ==
    {[loop |-> FALSE, interval |-> 45]}
    \cup {[loop |-> TRUE, interval |-> i] : i \in Intervals}

\* CSV headers: a symbol column, an alias of it, neither
Headers ==
    { {"Symbol", "Score_10"}, {"Ticker", "score_10"}, {"Name", "score_10"} }

\* CSV records as pandas.read_csv yields them: an empty cell is NaN
WatchRows ==
    { [symbol |-> Str("aaa"), score_10 |-> Num(100)],
      [symbol |-> NaN, score_10 |-> NaN],
      [name |-> Str("aaa"), score_10 |-> Num(100)] }

\* prices stay below 4.29 so that price * volume fits TLC's 32-bit integers
BigBars == << Bar(200, 2500000), Bar(240, 2500000) >>

TightQuote ==
    [bp |-> Num(200), ap |-> Num(202), bs |-> Num(1000), as |-> Num(1000)]

FdaNews == << [title |-> {"FDA", "approval", "for", "aaa"}] >>

DailyBars == << [h |-> Num(280)], [h |-> Num(300)] >>

\* rate-limited without news, rate-limited with news, everything answered
WatchEnvs ==
    { Env(Fail(429), Fail(500), Ok([results |-> TightQuote]), Fail(500),
          Ok([results |-> DailyBars])),
      Env(Fail(429), Ok(EmptyMap), Ok([results |-> TightQuote]),
          Ok([results |-> FdaNews]), Ok([results |-> DailyBars])),
      Env(Ok([results |-> BigBars]), Ok(EmptyMap),
          Ok([results |-> TightQuote]), Ok([results |-> FdaNews]),
          Ok([results |-> DailyBars])) }

SpyBar(o, c) == [o |-> Num(o), c |-> Num(c)]

MarketReplies ==
    { Fail(429),
      Ok([results |-> << SpyBar(50000, 50100), SpyBar(50100, 50200) >>]) }

Gainer(t, p, c, pct) ==
    [ticker |-> t, lastTrade |-> [p |-> p], day |-> [c |-> c],
     todaysChangePerc |-> Num(pct)]

GainerLists ==
    { <<>>,
      << Gainer("AAA", Num(1000), Num(990), 1250) >>,
      << Gainer("AAA", None, Num(990), 1250), Gainer("BBB", None, None, 900) >>,
      << [ticker |-> "CCC"], Gainer("BBB", Num(0), Num(500), 700) >> }

GainerReplies ==
    {Fail(429), Fail(500)} \cup {Ok([tickers |-> g]) : g \in GainerLists}

----------------------------------------------------------------------------
(* The scripts *)

Init ==
    /\ prog \in {"watchlist", "gainer"}
    /\ API_KEY \in BOOLEAN
    /\ args \in (IF prog = "watchlist" THEN Args
                 ELSE {[loop |-> FALSE, interval |-> 45]})
    /\ pc = IF prog = "watchlist" THEN "main" ELSE "import"
    /\ passes = 0
    /\ watch = [columns |-> {}, size |-> 0, left |-> 0]
    /\ mkt_score = 0
    /\ row = EmptyMap
    /\ sub = NoScores
    /\ data = EmptyMap
    /\ rows = <<>>
    /\ printed = NothingPrinted
    /\ slept = 0
    /\ calls = <<>>

\* run_scan, lines 360-364: the watchlist is loaded, the market score fetched
StartScan ==
    /\ prog = "watchlist" /\ pc = "main"
    /\ \E header \in Headers, n \in 0..MaxRows, reply \in MarketReplies :
          /\ watch' = [columns |-> load_watchlist(header), size |-> n,
                        left |-> n]
          /\ mkt_score' = fetch_market_score(API_KEY, reply)
          /\ calls' = << polygon_get(API_KEY, reply) >>
    /\ passes' = Min(passes + 1, MaxPasses)
    /\ rows' = <<>>
    /\ printed' = NothingPrinted
    /\ pc' = "rows"
    /\ UNCHANGED <<prog, API_KEY, args, row, sub, data, slept>>

\* run_scan, lines 365-368: one iteration of the loop over the watchlist
ProcessRow ==
    /\ prog = "watchlist" /\ pc = "rows" /\ watch.left > 0
    /\ \E r \in WatchRows, env \in WatchEnvs :
          /\ DOMAIN r = watch.columns
          /\ row' = r
          /\ sub' = IF ticker_of(r) = "" THEN NoScores
                    ELSE row_scores(API_KEY, r, env, mkt_score)
          /\ data' = process_row(API_KEY, r, env, mkt_score)
          /\ rows' = IF DOMAIN data' /= {} THEN Append(rows, data') ELSE rows
          /\ calls' = row_calls(API_KEY, r, env)
    /\ watch' = [watch EXCEPT !.left = @ - 1]
    /\ UNCHANGED <<prog, API_KEY, args, pc, passes, mkt_score, printed, slept>>

\* run_scan, line 370: the table is printed
PrintTable ==
    /\ prog = "watchlist" /\ pc = "rows" /\ watch.left = 0
    /\ printed' = build_table(rows)
    /\ pc' = "scanned"
    /\ UNCHANGED <<prog, API_KEY, args, passes, watch, mkt_score, row, sub,
                   data, rows, slept, calls>>

\* A driver that sleeps the interval as given.
sleep_time_raw(interval) == interval

\* main, line 394: the argument of time.sleep
sleep_time(interval) == Max(5, interval)

\* main, lines 392-393: without --loop the driver stops after the pass
Exit ==
    /\ prog = "watchlist" /\ pc = "scanned" /\ ~args.loop
    /\ pc' = "done"
    /\ UNCHANGED <<prog, API_KEY, args, passes, watch, mkt_score, row, sub,
                   data, rows, printed, slept, calls>>

\* main, line 394: with --loop the driver sleeps and scans again; the pass
\* is over, and what belonged to it is gone
Sleep ==
    /\ prog = "watchlist" /\ pc = "scanned" /\ args.loop
    /\ slept' = sleep_time(args.interval)
    /\ pc' = "main"
    /\ watch' = [columns |-> {}, size |-> 0, left |-> 0]
    /\ row' = EmptyMap
    /\ sub' = NoScores
    /\ data' = EmptyMap
    /\ rows' = <<>>
    /\ printed' = NothingPrinted
    /\ calls' = <<>>
    /\ UNCHANGED <<prog, API_KEY, args, passes, mkt_score>>

\* realtime_gainer_scan, lines 18-22: without the key the import raises
GainerImport ==
    /\ prog = "gainer" /\ pc = "import"
    /\ pc' = IF API_KEY THEN "main" ELSE "crashed"
    /\ UNCHANGED <<prog, API_KEY, args, passes, watch, mkt_score, row, sub,
                   data, rows, printed, slept, calls>>

\* realtime_gainer_scan.main, lines 58-64: one iteration, the sleep included
GainerPass ==
    /\ prog = "gainer" /\ pc = "main"
    /\ \E reply \in GainerReplies :
          LET c == gainer_get(reply)
          IN  /\ calls' = <<c>>
              /\ printed' =
                    IF c.raised
                    THEN [text |-> "Error fetching data", table |-> <<>>]
                    ELSE [text |-> "gainers",
                          table |-> display(Get(c.json, "tickers", <<>>), 1)]
    /\ passes' = Min(passes + 1, MaxPasses)
    /\ slept' = 30
    /\ pc' = "main"
    /\ UNCHANGED <<prog, API_KEY, args, watch, mkt_score, row, sub, data,
                   rows>>

Next ==
    \/ StartScan
    \/ ProcessRow
    \/ PrintTable
    \/ Exit
    \/ Sleep
    \/ GainerImport
    \/ GainerPass

Spec == Init /\ [][Next]_vars

----------------------------------------------------------------------------
(* Claims about the scripts *)

NonOk(c) == c.status /= 200 /\ c.status /= 0

\* C1, as stated: a wrapper call that meets HTTP 429 sleeps 1, then twice
\* the previous sleep, and repeats the request after every sleep; any other
\* non-2xx status makes it raise.
C1_RetriesOn429 ==
    \A i \in DOMAIN calls :
        LET c == calls[i]
        IN  /\ c.status = 429 =>
                 /\ Len(c.sleeps) >= 1
                 /\ c.sleeps[1] = 1
                 /\ \A k \in 2..Len(c.sleeps) : c.sleeps[k] = 2 * c.sleeps[k - 1]
                 /\ c.requests = Len(c.sleeps) + 1
            /\ (NonOk(c) /\ c.status /= 429) => c.raised

\* C1, amended: neither wrapper retries or sleeps. Every call issues at most
\* one request; on HTTP 429 as on any other non-2xx status polygon_get
\* returns the empty mapping without raising, and _get raises at once, which
\* the gainer's main reports before its regular 30 s sleep.
C1_NoRetry ==
    \A i \in DOMAIN calls :
        LET c == calls[i]
        IN  /\ c.requests <= 1
            /\ c.sleeps = <<>>
            /\ NonOk(c) =>
                 /\ c.requests = 1
                 /\ DOMAIN c.json = {}
                 /\ c.raised <=> prog = "gainer"
                 /\ prog = "gainer" =>
                      printed.text = "Error fetching data" /\ slept = 30

\* C1: a row whose requests met both HTTP 429 and HTTP 500
C1_Witness ==
    /\ prog = "watchlist"
    /\ \E i \in DOMAIN calls : calls[i].status = 429
    /\ \E i \in DOMAIN calls : calls[i].status = 500
    /\ DOMAIN data /= {}

\* C5: a row whose symbol is empty (the watchlist has no symbol column, or
\* the row's symbol cell is empty) is skipped: it yields no output row.
C5_EmptySymbolSkipped ==
    (DOMAIN row /= {} /\ ("symbol" \notin DOMAIN row \/ IsNaN(row.symbol))) =>
        (DOMAIN data = {} /\ \A i \in DOMAIN rows : rows[i].sym /= "NAN")

Rank(cv) == CASE cv = "High" -> 2 [] cv = "Medium" -> 1 [] cv = "Low" -> 0

\* a's (conviction rank, confidence, premarket volume) is greater than or
\* equal to b's, a NaN confidence counting as the lowest
KeyGeq(a, b) ==
    LET ca == IF IsNaN(a.conf) THEN 0 - 1 ELSE a.conf.v
        cb == IF IsNaN(b.conf) THEN 0 - 1 ELSE b.conf.v
    IN  \/ Rank(a.cv) > Rank(b.cv)
        \/ Rank(a.cv) = Rank(b.cv) /\ ca > cb
        \/ Rank(a.cv) = Rank(b.cv) /\ ca = cb /\ a.pm_vol >= b.pm_vol

Perms(n) == {p \in [1..n -> 1..n] : \A i, j \in 1..n : p[i] = p[j] => i = j}

\* C9: the printed table is a permutation of the collected rows, and of any
\* two rows the one printed first has the greater or equal key
\* (conviction rank, confidence, premarket volume).
C9_TableSorted ==
    (prog = "watchlist" /\ pc = "scanned" /\ Len(rows) > 0) =>
        /\ printed.text = "table"
        /\ \E p \in Perms(Len(rows)) :
              /\ \A i \in 1..Len(rows) :
                    printed.table[i] = render_row(rows[p[i]])
              /\ \A i, j \in 1..Len(rows) :
                    i < j => KeyGeq(rows[p[i]], rows[p[j]])

\* C9: rows collected as Low, High, Medium are printed High, Medium, Low
C9_Witness ==
    /\ pc = "scanned" /\ Len(rows) = 3
    /\ <<rows[1].cv, rows[2].cv, rows[3].cv>> = <<"Low", "High", "Medium">>
    /\ <<printed.table[1].cv, printed.table[2].cv, printed.table[3].cv>>
         = <<"High", "Medium", "Low">>

\* C10, as stated: the gainer driver does not repeat its pass.
C10_GainerRunsOnce == prog = "gainer" => passes <= 1

\* C10, amended: without --loop the watchlist driver performs exactly one
\* scan pass and terminates; with --loop it never terminates: every pass is
\* followed by a sleep of max(5, interval) seconds, never less than 5, and
\* the sleep by another pass; the gainer driver repeats its pass without end
\* too, sleeping 30 seconds after each one.
C10_DriversRepeat ==
    /\ (prog = "watchlist" /\ ~args.loop) =>
          /\ passes <= 1
          /\ slept = 0
          /\ pc = "done" => passes = 1
          /\ pc = "scanned" => (ENABLED Exit /\ ~ENABLED Sleep)
          /\ pc = "done" => ~ENABLED Next
    /\ (prog = "watchlist" /\ args.loop) =>
          /\ pc \in {"main", "rows", "scanned"}
          /\ pc = "scanned" => (ENABLED Sleep /\ ~ENABLED Exit)
          /\ pc = "main" => ENABLED StartScan
          /\ slept \in {0, 5, args.interval}
          /\ slept /= 0 => (slept >= 5 /\ slept >= args.interval)
          /\ passes >= 2 => slept /= 0
    /\ prog = "gainer" =>
          /\ pc /= "done"
          /\ pc = "main" => ENABLED GainerPass
          /\ slept = IF passes >= 1 THEN 30 ELSE 0

\* C10: a looping scan with a negative interval slept 5 and scans again
C10_Witness ==
    /\ prog = "watchlist" /\ args.loop /\ args.interval < 0
    /\ slept = 5 /\ passes = 2 /\ pc = "scanned"

----------------------------------------------------------------------------
(* The scoring pipeline of process_row over a wide range of rows and        *)
(* replies: one market score fetch, then one row at a time                  *)

Cells(column, values) == {[c \in {} |-> None]} \cup {[c \in {column} |-> v] : v \in values}

\* f and g merged; their domains are disjoint
Merge(f, g) ==
    [c \in DOMAIN f \cup DOMAIN g |-> IF c \in DOMAIN f THEN f[c] ELSE g[c]]

\* score_10 missing, empty, negative, within 0..10 and above 10
ScoreRows ==
    { Merge([symbol |-> Str("aaa")], c) :
        c \in Cells("score_10", {NaN, Num(0 - 20), Num(0), Num(71), Num(75),
                                 Num(100), Num(150)}) }

Quote(bp, ap, bs, as) == [bp |-> bp, ap |-> ap, bs |-> bs, as |-> as]

\* no quote, tight, locked, crossed, wide, one-sided
ScoreQuotes ==
    { Fail(500),
      Ok([results |-> TightQuote]),
      Ok([results |-> Quote(Num(200), Num(200), Num(1000), Num(1000))]),
      Ok([results |-> Quote(Num(200), Num(100), Num(400), None)]),
      Ok([results |-> Quote(Num(200), Num(220), Num(100), Num(300))]),
      Ok([results |-> [bp |-> Num(200), bs |-> Num(4000)]]) }

ScoreNews ==
    { Fail(429),
      Ok([results |-> <<>>]),
      Ok([results |-> FdaNews]),
      Ok([results |-> << [title |-> {"aaa", "rallies"}] >>]),
      Ok([results |-> << [title |-> {"Earnings", "beat", "and", "Upgrade"}] >>]),
      Ok([results |-> << [title |-> {"guidance"}], [publisher |-> "x"] >>]) }

ScoreAggs ==
    { Fail(429),
      Ok([results |-> <<>>]),
      Ok([results |-> << Bar(200, 5000) >>]),
      Ok([results |-> BigBars]) }

ScoreTrades ==
    { Ok(EmptyMap),
      Ok([results |-> [p |-> Num(250)]]),
      Ok([results |-> [p |-> Num(210)]]) }

ScoreEnvs ==
    { Env(a, t, q, n, Ok([results |-> DailyBars])) :
        a \in ScoreAggs, t \in ScoreTrades, q \in ScoreQuotes, n \in ScoreNews }

\* SPY down 2 %, flat, up 0.2 %, up 2 %, and no data
ScoreMarkets ==
    { Fail(500) }
    \cup { Ok([results |-> << SpyBar(50000, 50010), SpyBar(50010, c) >>]) :
             c \in {49000, 50000, 50100, 51000} }

InitScore ==
    /\ prog = "watchlist"
    /\ API_KEY \in BOOLEAN
    /\ args = [loop |-> FALSE, interval |-> 45]
    /\ pc = "main"
    /\ passes = 0
    /\ watch = [columns |-> {}, size |-> 0, left |-> 0]
    /\ mkt_score = 0
    /\ row = EmptyMap
    /\ sub = NoScores
    /\ data = EmptyMap
    /\ rows = <<>>
    /\ printed = NothingPrinted
    /\ slept = 0
    /\ calls = <<>>

\* run_scan, line 362
FetchMarket ==
    /\ pc = "main"
    /\ \E reply \in ScoreMarkets :
          mkt_score' = fetch_market_score(API_KEY, reply)
    /\ pc' = "rows"
    /\ UNCHANGED <<prog, API_KEY, args, passes, watch, row, sub, data, rows,
                   printed, slept, calls>>

\* process_row on one row
ScoreRow ==
    /\ pc = "rows"
    /\ \E r \in ScoreRows, env \in ScoreEnvs :
          /\ row' = r
          /\ sub' = row_scores(API_KEY, r, env, mkt_score)
          /\ data' = process_row(API_KEY, r, env, mkt_score)
          /\ calls' = row_calls(API_KEY, r, env)
    /\ pc' = "returned"
    /\ UNCHANGED <<prog, API_KEY, args, passes, watch, mkt_score, rows,
                   printed, slept>>

NextScore == FetchMarket \/ ScoreRow

SpecScore == InitScore /\ [][NextScore]_vars

InUnit(x) == 0 <= x /\ x <= 1000

\* C2: each of the five sub-scores handed to compute_confidence lies in
\* [0,1], also for a score_10 outside 0..10 and for a crossed quote (stated
\* for the rows whose score_10 is a number; the empty cell is C3's case).
C2_SubScoresInUnitRange ==
    (DOMAIN data /= {} /\ IsNum(sub.base)) =>
        /\ InUnit(sub.base.v)
        /\ InUnit(sub.news) /\ InUnit(sub.flow)
        /\ InUnit(sub.liq) /\ InUnit(sub.market)

\* C3: the confidence is 100 x (0.35 base + 0.25 news + 0.20 flow
\* + 0.10 liquidity + 0.10 market) with base = score_10 / 10, and base = 0
\* when the score is absent (no column, or an empty cell); for inputs in
\* [0,1] it lies in [0,100].
C3_ConfidenceFormula ==
    DOMAIN data /= {} =>
        LET absent == "score_10" \notin DOMAIN row \/ IsNaN(row.score_10)
            base == IF absent THEN 0 ELSE row.score_10.v * 10
            conf == 35 * base + 25 * sub.news + 20 * sub.flow
                    + 10 * sub.liq + 10 * sub.market
        IN  /\ sub.conf = Num(conf)
            /\ (InUnit(base) /\ InUnit(sub.news) /\ InUnit(sub.flow)
                /\ InUnit(sub.liq) /\ InUnit(sub.market))
                  => (0 <= conf /\ conf <= 100000)

\* the quote process_row received: the JSON of its third wrapper call
QuoteSeen == Get(calls[3].json, "results", EmptyMap)

SpreadPart ==
    LET bid == Get(QuoteSeen, "bp", None)
        ask == Get(QuoteSeen, "ap", None)
    IN  IF IsNum(bid) /\ IsNum(ask) /\ bid.v > 0 /\ ask.v /= 0
        THEN Max(0, 1000 - (20000 * (ask.v - bid.v)) \div bid.v)
        ELSE 0

SizeSum ==
    LET bs == Get(QuoteSeen, "bs", None)
        as == Get(QuoteSeen, "as", None)
    IN  (IF IsNum(bs) THEN bs.v ELSE 0) + (IF IsNum(as) THEN as.v ELSE 0)

\* C7, as stated: the liquidity score is the mean of max(0, 1 - spread/5)
\* and min((bid_size + ask_size) / 2, 2000) / 2000.
C7_SizeCapOnAverage ==
    DOMAIN data /= {} =>
        2 * sub.liq = SpreadPart + (Min(SizeSum \div 2, 2000) * 1000) \div 2000

\* C7, amended: the liquidity score is the mean of a spread component,
\* max(0, 1 - spread_pct/5) when bid and ask are quoted and 0 otherwise, and
\* a size component min((bid_size + ask_size) / 2000, 1), which reaches 1
\* as soon as the two sizes add up to 2000 (an average of 1000).
C7_LiquidityMean ==
    DOMAIN data /= {} =>
        2 * sub.liq = SpreadPart + Min((SizeSum * 1000) \div 2000, 1000)

\* C7: a locked quote of 1000 by 1000 shares scores 1.0
C7_Witness ==
    /\ DOMAIN data /= {}
    /\ QuoteSeen = Quote(Num(200), Num(200), Num(1000), Num(1000))
    /\ sub.liq = 1000

\* the whole number of points the row reports in its conf column, at least n
ShownAtLeast(n) == IsNum(data.conf) /\ data.conf.v >= n

\* C11: in every row of process_row the label agrees with the confidence
\* shown in the same row: cv is High iff the reported conf (the confidence
\* rounded to a whole number) is >= 75, Medium iff 55 <= conf < 75, Low
\* otherwise, and conv_num is 2, 1, 0 for High, Medium, Low.
C11_LabelMatchesShownConf ==
    DOMAIN data /= {} =>
        /\ data.cv = "High" <=> ShownAtLeast(75)
        /\ data.cv = "Medium" <=> (ShownAtLeast(55) /\ ~ShownAtLeast(75))
        /\ data.cv = "Low" <=> ~ShownAtLeast(55)
        /\ data.conv_num = Rank(data.cv)

----------------------------------------------------------------------------
(* conviction_from_confidence over the whole range of confidences: the     *)
(* last two results are kept side by side                                  *)

\* 0, 1, ..., 100 points and the values next to the two boundaries
ConfInputs ==
    {1000 * k : k \in 0..100} \cup {54999, 55001, 74999, 75001}

InitBand ==
    /\ prog = "watchlist"
    /\ API_KEY = TRUE
    /\ args = [loop |-> FALSE, interval |-> 45]
    /\ pc = "rows"
    /\ passes = 0
    /\ watch = [columns |-> {}, size |-> 0, left |-> 0]
    /\ mkt_score = 0
    /\ row = EmptyMap
    /\ sub = NoScores
    /\ data = EmptyMap
    /\ rows = <<>>
    /\ printed = NothingPrinted
    /\ slept = 0
    /\ calls = <<>>

\* process_row, lines 310 and 320-321, on a confidence
Band ==
    /\ pc = "rows"
    /\ \E c \in ConfInputs :
          LET cv == conviction_from_confidence(Num(c))
              d == [cv |-> cv, conv_num |-> conv_num_of(cv)]
          IN  /\ sub' = [sub EXCEPT !.conf = Num(c)]
              /\ data' = d
              /\ rows' = (IF Len(rows) = 0 THEN <<>>
                          ELSE << rows[Len(rows)] >>)
                         \o << [conf |-> c, cv |-> cv] >>
    /\ UNCHANGED <<prog, API_KEY, args, pc, passes, watch, mkt_score, row,
                   printed, slept, calls>>

NextBand == Band

SpecBand == InitBand /\ [][NextBand]_vars

\* C4: High iff confidence >= 75, Medium iff 55 <= confidence < 75, Low
\* otherwise, and a higher confidence never has a lower conviction rank.
C4_Bands ==
    /\ \A i \in DOMAIN rows :
          /\ rows[i].cv = "High" <=> rows[i].conf >= 75000
          /\ rows[i].cv = "Medium" <=>
                (55000 <= rows[i].conf /\ rows[i].conf < 75000)
          /\ rows[i].cv = "Low" <=> rows[i].conf < 55000
    /\ \A i, j \in DOMAIN rows :
          rows[i].conf <= rows[j].conf => Rank(rows[i].cv) <= Rank(rows[j].cv)
    /\ DOMAIN data /= {} => data.conv_num = Rank(data.cv)

\* C4: the confidences just below 75 and exactly 75, side by side
C4_Witness ==
    /\ Len(rows) = 2
    /\ rows[1] = [conf |-> 74999, cv |-> "Medium"]
    /\ rows[2] = [conf |-> 75000, cv |-> "High"]

----------------------------------------------------------------------------
(* The trade plan of process_row over rows with and without overrides *)

PlanRows ==
    { Merge(Merge(Merge([symbol |-> Str("aaa")], e), Merge(p, st)),
            Merge(a, b)) :
        e \in Cells("entry", {NaN, Num(220)}),
        p \in Cells("px", {Num(210)}),
        st \in Cells("stop", {NaN, Num(190)}),
        a \in Cells("t1", {NaN, Num(260)}),
        b \in Cells("t2", {NaN, Num(270)}) }

\* no daily bars, a high of 3.00, a high of 12.00
PlanDaily ==
    { Fail(429),
      Ok([results |-> DailyBars]),
      Ok([results |-> << [h |-> Num(1150)], [h |-> Num(1200)] >>]) }

PlanEnvs ==
    { Env(a, t, Ok([results |-> TightQuote]), Ok([results |-> <<>>]), d) :
        a \in {Fail(429), Ok([results |-> BigBars])},
        t \in {Ok(EmptyMap), Ok([results |-> [p |-> Num(250)]])},
        d \in PlanDaily }

InitPlan ==
    /\ prog = "watchlist"
    /\ API_KEY \in BOOLEAN
    /\ args = [loop |-> FALSE, interval |-> 45]
    /\ pc = "rows"
    /\ passes = 0
    /\ watch = [columns |-> {}, size |-> 0, left |-> 0]
    /\ mkt_score = 500
    /\ row = EmptyMap
    /\ sub = NoScores
    /\ data = EmptyMap
    /\ rows = <<>>
    /\ printed = NothingPrinted
    /\ slept = 0
    /\ calls = <<>>

\* process_row on one row
PlanRow ==
    /\ pc = "rows"
    /\ \E r \in PlanRows, env \in PlanEnvs :
          /\ row' = r
          /\ sub' = row_scores(API_KEY, r, env, mkt_score)
          /\ data' = process_row(API_KEY, r, env, mkt_score)
          /\ calls' = row_calls(API_KEY, r, env)
    /\ pc' = "returned"
    /\ UNCHANGED <<prog, API_KEY, args, passes, watch, mkt_score, rows,
                   printed, slept>>

NextPlan == PlanRow

SpecPlan == InitPlan /\ [][NextPlan]_vars

\* an override is given: the column is there and the cell is not empty
Given(r, column) == column \in DOMAIN r /\ IsNum(r[column])

\* the 30-day high process_row fetched: the JSON of its fifth wrapper call
HighSeen ==
    LET bars == IF Len(calls) >= 5
                THEN Get(calls[5].json, "results", <<>>) ELSE <<>>
    IN  IF Len(bars) = 0 THEN None
        ELSE Num(MaxOver([i \in 1..Len(bars) |-> bars[i].h.v], 1))

\* C8: entry, stop, target1 and target2 are the row's overrides when given;
\* otherwise entry is the row's or the last premarket price, stop is
\* entry x 0.97, target1 the fetched 30-day high and target2 the high x 1.05;
\* a given target is never replaced, also when the other one is missing.
C8_OverridesElseDerived ==
    DOMAIN data /= {} =>
        LET entry == IF Given(row, "entry") THEN row.entry
                     ELSE IF Given(row, "px") THEN row.px
                     ELSE data.pm_px
        IN  /\ data.entry = entry
            /\ data.stop = IF Given(row, "stop") THEN row.stop
                           ELSE IF IsNum(entry)
                           THEN Num(RoundDiv(entry.v * 97, 100))
                           ELSE None
            /\ Given(row, "t1") => data.T1 = row.t1
            /\ Given(row, "t2") => data.T2 = row.t2
            /\ (~Given(row, "t1") /\ IsNum(HighSeen)) => data.T1 = HighSeen
            /\ (~Given(row, "t2") /\ IsNum(HighSeen)) =>
                  data.T2 = Num(RoundDiv(HighSeen.v * 105, 100))

====
